---- MODULE Spec2Model ----
(***************************************************************************)
(* dj-brevo: the Brevo API client (src/src/dj_brevo/services/client.py).   *)
(*                                                                         *)
(* One BrevoClient is constructed from the module-level settings provider  *)
(* (brevo_settings) and then used for send_email / send_template_email     *)
(* calls.  A call builds a payload, applies the sandbox transformation,    *)
(* issues one httpx.post and maps the response to a return value or to a   *)
(* raised exception.                                                       *)
(*                                                                         *)
(* Python values are modelled as tagged records (None, Str, Dict, List,    *)
(* IntV) so that truthiness, `is None`, and dict.get behave as in Python.  *)
(* A Python dict[str, str] is a set of <<key, value>> pairs; a payload     *)
(* (dict[str, Any]) is a function from its keys to tagged values.          *)
(***************************************************************************)
EXTENDS Integers, Sequences, FiniteSets, TLC

VARIABLES
    settings,      \* brevo_settings: the settings provider's current values
    client,        \* "none" | "ok" | "BrevoConfigError": result of BrevoClient(...)
    self,          \* the constructed client's attributes
    ctor_arg,      \* the api_key argument of the last BrevoClient(...) call
    ctor_settings, \* brevo_settings as it was during that call (history)
    pc,            \* position of the current call: idle, post, wait, done
    op,            \* "send_email" | "send_template_email" | "none"
    args,          \* keyword arguments of the current call
    seen_default,  \* brevo_settings.DEFAULT_FROM_EMAIL when the call started
    payload,       \* the payload handed to _post
    posts,         \* number of httpx.post requests issued by the current call
    request,       \* the request issued by httpx.post
    response,      \* the httpx.Response received
    outcome,       \* how the call ended: return value or raised exception
    prev           \* a remembered earlier call of this client (history)

vars == <<settings, client, self, ctor_arg, ctor_settings, pc, op, args, seen_default,
          payload, posts, request, response, outcome, prev>>

callvars == <<pc, op, args, seen_default, payload, posts, request, response, outcome>>

(***************************************************************************)
(* Python values                                                           *)
(***************************************************************************)
None == [t |-> "none"]

Str(s) == [t |-> "str", s |-> s]

Dict(d) == [t |-> "dict", d |-> d]

List(l) == [t |-> "list", l |-> l]

IntV(n) == [t |-> "int", n |-> n]

\* Python truth value testing, as used by `or`, `not x` and `if x`.
Truthy(v) ==
    CASE v.t = "none" -> FALSE
      [] v.t = "str"  -> v.s # ""
      [] v.t = "dict" -> v.d # {}
      [] v.t = "list" -> v.l # <<>>
      [] v.t = "int"  -> v.n # 0

\* payload[key] = value
SetItem(p, key, value) ==
    [k \in (DOMAIN p) \cup {key} |-> IF k = key THEN value ELSE p[k]]

\* dict.get(key, default) on a dict[str, str]
DictGet(d, key, default) ==
    IF \E kv \in d : kv[1] = key
    THEN (CHOOSE kv \in d : kv[1] = key)[2]
    ELSE default

(***************************************************************************)
(* Bounds and input domains                                                *)
(***************************************************************************)
MaxRecipients == 1

Recipient == {<<"email", "a@b.com">>}

SenderDict == {<<"email", "s@b.com">>}

ReplyDict == {<<"email", "r@b.com">>}

RECURSIVE Repeat(_, _)
Repeat(x, n) == IF n = 0 THEN <<>> ELSE <<x>> \o Repeat(x, n - 1)

\* recipient lists of length 0..MaxRecipients
RecipientLists == {List(Repeat(Recipient, n)) : n \in 0..MaxRecipients}

OptList == {None} \cup RecipientLists

OptSender == {None, Dict({}), Dict(SenderDict)}

OptReply == {None, Dict({}), Dict(ReplyDict)}

OptText == {None, Str(""), Str("Hello!")}

OptParams == {None, Dict({}), Dict({<<"firstName", "D">>})}

ToLists == {l \in RecipientLists : l.l # <<>>}

EmailArgs ==
    [to : ToLists, subject : {"S"}, html_content : {"<p>x</p>"},
     sender : OptSender, text_content : OptText, reply_to : OptReply,
     cc : OptList, bcc : OptList]

TemplateArgs ==
    [to : ToLists, template_id : {42}, params : OptParams,
     sender : OptSender, reply_to : OptReply, cc : OptList, bcc : OptList]

DefaultUrl == "https://api.brevo.com/v3"

OkBody == "{\"messageId\":\"m1\"}"

MsgBody == "{\"message\":\"Invalid API key\"}"

CodeBody == "{\"code\":\"bad_request\"}"

EmptyObjBody == "{}"

ListBody == "[]"

NullBody == "null"

StringBody == "\"oops\""

HtmlBody == "<html>Bad Gateway</html>"

BlankBody == ""

Bodies == {OkBody, MsgBody, CodeBody, EmptyObjBody, ListBody, NullBody,
           StringBody, HtmlBody, BlankBody}

Statuses == {200, 201, 302, 400, 401, 429, 500, 503}

Responses == [status_code : Statuses, text : Bodies]

(***************************************************************************)
(* httpx.Response                                                          *)
(***************************************************************************)
\* response.json(): the parsed body, or ValueError when the text is not JSON
ResponseJson(text) ==
    CASE text = OkBody       -> [ok |-> TRUE, v |-> Dict({<<"messageId", "m1">>})]
      [] text = MsgBody      -> [ok |-> TRUE, v |-> Dict({<<"message", "Invalid API key">>})]
      [] text = CodeBody     -> [ok |-> TRUE, v |-> Dict({<<"code", "bad_request">>})]
      [] text = EmptyObjBody -> [ok |-> TRUE, v |-> Dict({})]
      [] text = ListBody     -> [ok |-> TRUE, v |-> List(<<>>)]
      [] text = NullBody     -> [ok |-> TRUE, v |-> None]
      [] text = StringBody   -> [ok |-> TRUE, v |-> Str("oops")]
      [] OTHER               -> [ok |-> FALSE, v |-> None]

\* response.is_success
IsSuccess(status_code) == 200 <= status_code /\ status_code <= 299

(***************************************************************************)
(* BrevoClient                                                             *)
(***************************************************************************)
NoOutcome == [kind |-> "none"]

NoSelf == [api_key |-> None, base_url |-> "", timeout |-> 0, sandbox |-> FALSE]

\* self.api_key = api_key or brevo_settings.API_KEY
ResolveApiKeyCfgFirst(api_key, cfg_key) ==
    IF Truthy(cfg_key) THEN cfg_key ELSE api_key

ResolveApiKey(api_key, cfg_key) ==
    IF Truthy(api_key) THEN api_key ELSE cfg_key

_get_headers(slf) ==
    {<<"api-key", slf.api_key.s>>,
     <<"Content-Type", "application/json">>,
     <<"Accept", "application/json">>}

SandboxHeaders == Dict({<<"X-Sib-Sandbox", "drop">>})

_apply_sandbox_always(slf, p) == SetItem(p, "headers", SandboxHeaders)

_apply_sandbox_settings(slf, p) ==
    IF settings.SANDBOX THEN SetItem(p, "headers", SandboxHeaders) ELSE p

_apply_sandbox(slf, p) ==
    IF slf.sandbox THEN SetItem(p, "headers", SandboxHeaders) ELSE p

\* try: data = response.json() / except ValueError: data = {}
ParsedData(resp) ==
    LET j == ResponseJson(resp.text)
    IN  IF j.ok THEN j.v ELSE Dict({})

\* message = data.get("message", response.text), for a data that is a dict
ErrorMessageTextOnly(data, text) == text

ErrorMessage(data, text) == DictGet(data.d, "message", text)

\* raise <kind>(message=..., status_code=..., response_data=...)
Raise(kind, message, status_code, data) ==
    [kind |-> kind, message |-> message, status_code |-> status_code,
     response_data |-> data]

_handle_response(resp) ==
    LET data == ParsedData(resp)
    IN  IF IsSuccess(resp.status_code)
        THEN [kind |-> "return", value |-> data]
        ELSE IF data.t # "dict"
        THEN [kind |-> "AttributeError"]   \* data.get on a list, str or None
        ELSE LET message == ErrorMessage(data, resp.text)
             IN  IF resp.status_code = 401
                 THEN Raise("BrevoAuthError", message, 401, data)
                 ELSE IF resp.status_code = 429
                 THEN Raise("BrevoRateLimitError", message, 429, data)
                 ELSE Raise("BrevoAPIError", message, resp.status_code, data)

\* url = f"{self.base_url}{endpoint}" and the arguments of httpx.post
PostRequestFromSettings(slf, endpoint, p) ==
    [url |-> settings.API_BASE_URL \o endpoint, json |-> p,
     headers |-> _get_headers(slf), timeout |-> settings.TIMEOUT]

PostRequest(slf, endpoint, p) ==
    [url |-> slf.base_url \o endpoint, json |-> p,
     headers |-> _get_headers(slf), timeout |-> slf.timeout]

\* _post returns what _handle_response returns or raises: the call is over
AfterResponseRetry(resp) == IF resp.status_code = 429 THEN "post" ELSE "done"

AfterResponse(resp) == "done"

\* if x: payload[key] = x
SetIfNotNone(p, key, v) == IF v # None THEN SetItem(p, key, v) ELSE p

SetIfTruthy(p, key, v) == IF Truthy(v) THEN SetItem(p, key, v) ELSE p

\* send_email, sender resolution: the sender to use, or None for BrevoConfigError
ResolveSenderNoCheck(sender, default_email) ==
    IF sender = None
    THEN Dict({<<"email", IF default_email.t = "str" THEN default_email.s ELSE "None">>})
    ELSE sender

ResolveSender(sender, default_email) ==
    IF sender = None
    THEN IF ~Truthy(default_email)
         THEN None
         ELSE Dict({<<"email", default_email.s>>})
    ELSE sender

EmailPayload(a, sender) ==
    LET p0 == [k \in {"sender", "to", "subject", "htmlContent"} |->
                 CASE k = "sender"      -> sender
                   [] k = "to"          -> a.to
                   [] k = "subject"     -> Str(a.subject)
                   [] k = "htmlContent" -> Str(a.html_content)]
        p1 == SetIfTruthy(p0, "textContent", a.text_content)
        p2 == SetIfTruthy(p1, "replyTo", a.reply_to)
        p3 == SetIfTruthy(p2, "cc", a.cc)
    IN  SetIfTruthy(p3, "bcc", a.bcc)

\* send_template_email: the sender argument as it enters the payload
TemplateSenderWithDefault(a) ==
    IF a.sender = None /\ Truthy(settings.DEFAULT_FROM_EMAIL)
    THEN Dict({<<"email", settings.DEFAULT_FROM_EMAIL.s>>})
    ELSE a.sender

TemplateSender(a) == a.sender

TemplatePayload(a) ==
    LET p0 == [k \in {"to", "templateId"} |->
                 IF k = "to" THEN a.to ELSE IntV(a.template_id)]
        p1 == SetIfTruthy(p0, "params", a.params)
        p2 == SetIfTruthy(p1, "sender", TemplateSender(a))
        p3 == SetIfTruthy(p2, "replyTo", a.reply_to)
        p4 == SetIfTruthy(p3, "cc", a.cc)
    IN  SetIfTruthy(p4, "bcc", a.bcc)

(***************************************************************************)
(* Actions                                                                 *)
(***************************************************************************)
\* BrevoClient(api_key=...)
BrevoClient_init(ApiKeys) ==
    /\ client # "ok"
    /\ pc = "idle"
    /\ \E api_key \in ApiKeys :
         LET key == ResolveApiKey(api_key, settings.API_KEY)
         IN  /\ ctor_arg' = api_key
             /\ ctor_settings' = settings
             /\ IF ~Truthy(key)
                THEN /\ client' = "BrevoConfigError"
                     /\ self' = NoSelf
                ELSE /\ client' = "ok"
                     /\ self' = [api_key  |-> key,
                                 base_url |-> settings.API_BASE_URL,
                                 timeout  |-> settings.TIMEOUT,
                                 sandbox  |-> settings.SANDBOX]
    /\ UNCHANGED <<settings, callvars, prev>>

\* client.send_email(**a), up to the call of _post
send_email(ArgSet) ==
    /\ client = "ok"
    /\ pc = "idle"
    /\ \E a \in ArgSet :
         LET sender == ResolveSender(a.sender, settings.DEFAULT_FROM_EMAIL)
         IN  /\ op' = "send_email"
             /\ args' = a
             /\ seen_default' = settings.DEFAULT_FROM_EMAIL
             /\ IF sender = None
                THEN /\ pc' = "done"
                     /\ payload' = None
                     /\ outcome' = [kind |-> "BrevoConfigError"]
                ELSE /\ pc' = "post"
                     /\ payload' = _apply_sandbox(self, EmailPayload(a, sender))
                     /\ outcome' = NoOutcome
    /\ UNCHANGED <<settings, client, self, ctor_arg, ctor_settings, posts, request, response, prev>>

\* client.send_template_email(**a), up to the call of _post
send_template_email(ArgSet) ==
    /\ client = "ok"
    /\ pc = "idle"
    /\ \E a \in ArgSet :
         /\ op' = "send_template_email"
         /\ args' = a
         /\ seen_default' = settings.DEFAULT_FROM_EMAIL
         /\ pc' = "post"
         /\ payload' = _apply_sandbox(self, TemplatePayload(a))
    /\ UNCHANGED <<settings, client, self, ctor_arg, ctor_settings, posts, request, response,
                   outcome, prev>>

\* _post: httpx.post(url, json=payload, headers=..., timeout=...) is issued
httpx_post ==
    /\ pc = "post"
    /\ pc' = "wait"
    /\ request' = PostRequest(self, "/smtp/email", payload)
    /\ posts' = posts + 1
    /\ UNCHANGED <<settings, client, self, ctor_arg, ctor_settings, op, args, seen_default,
                   payload, response, outcome, prev>>

\* httpx.post returns a response; _handle_response maps it
Receive(RespSet) ==
    /\ pc = "wait"
    /\ \E resp \in RespSet :
         /\ response' = resp
         /\ outcome' = _handle_response(resp)
         /\ pc' = AfterResponse(resp)
    /\ UNCHANGED <<settings, client, self, ctor_arg, ctor_settings, op, args, seen_default,
                   payload, posts, request, prev>>

\* httpx.post raises (timeout, connection refused): nothing catches it
TransportFailure ==
    /\ pc = "wait"
    /\ pc' = "done"
    /\ outcome' = [kind |-> "TransportError"]
    /\ UNCHANGED <<settings, client, self, ctor_arg, ctor_settings, op, args, seen_default,
                   payload, posts, request, response, prev>>

CallSummary ==
    [op |-> op, args |-> args, seen_default |-> seen_default,
     payload |-> payload, request |-> request, response |-> response,
     outcome |-> outcome]

\* the caller has the result; the call's frame is gone
Return ==
    /\ pc = "done"
    /\ pc' = "idle"
    /\ op' = "none"
    /\ args' = None
    /\ seen_default' = None
    /\ payload' = None
    /\ posts' = 0
    /\ request' = None
    /\ response' = None
    /\ outcome' = NoOutcome
    /\ UNCHANGED <<settings, client, self, ctor_arg, ctor_settings, prev>>

\* as Return, and the finished call is remembered for comparison
ReturnRemember ==
    /\ pc = "done"
    /\ prev' = CallSummary
    /\ pc' = "idle"
    /\ op' = "none"
    /\ args' = None
    /\ seen_default' = None
    /\ payload' = None
    /\ posts' = 0
    /\ request' = None
    /\ response' = None
    /\ outcome' = NoOutcome
    /\ UNCHANGED <<settings, client, self, ctor_arg, ctor_settings>>

\* the application sets one value of the settings provider
ChangeSetting(SettingsSet) ==
    /\ \E s \in SettingsSet :
         /\ Cardinality({f \in DOMAIN settings : s[f] # settings[f]}) = 1
         /\ settings' = s
    /\ UNCHANGED <<client, self, ctor_arg, ctor_settings, callvars, prev>>

InitWith(SettingsSet) ==
    /\ settings \in SettingsSet
    /\ client = "none"
    /\ self = NoSelf
    /\ ctor_arg = None
    /\ ctor_settings = None
    /\ pc = "idle"
    /\ op = "none"
    /\ args = None
    /\ seen_default = None
    /\ payload = None
    /\ posts = 0
    /\ request = None
    /\ response = None
    /\ outcome = NoOutcome
    /\ prev = None

(***************************************************************************)
(* Spec: payload construction and the call's control flow                  *)
(***************************************************************************)
ApiKeyArgs == {None, Str(""), Str("arg-key")}

MainSettings ==
    [API_KEY : {None, Str(""), Str("cfg-key")},
     API_BASE_URL : {DefaultUrl},
     TIMEOUT : {10},
     SANDBOX : BOOLEAN,
     DEFAULT_FROM_EMAIL : {None, Str(""), Str("d@b.com")}]

MainResponses ==
    {[status_code |-> 200, text |-> OkBody],
     [status_code |-> 429, text |-> MsgBody],
     [status_code |-> 500, text |-> HtmlBody]}

Init == InitWith(MainSettings)

Next ==
    \/ BrevoClient_init(ApiKeyArgs)
    \/ send_email(EmailArgs)
    \/ send_template_email(TemplateArgs)
    \/ httpx_post
    \/ Receive(MainResponses)
    \/ TransportFailure
    \/ Return

Spec == Init /\ [][Next]_vars

(***************************************************************************)
(* SpecResponse: every status code with every kind of body                 *)
(***************************************************************************)
ResponseSettings ==
    [API_KEY : {Str("cfg-key")},
     API_BASE_URL : {DefaultUrl},
     TIMEOUT : {10},
     SANDBOX : BOOLEAN,
     DEFAULT_FROM_EMAIL : {Str("d@b.com")}]

PlainEmailArgs ==
    [to : {List(<<Recipient>>)}, subject : {"S"}, html_content : {"<p>x</p>"},
     sender : {None, Dict(SenderDict)}, text_content : {None}, reply_to : {None},
     cc : {None}, bcc : {None}]

PlainTemplateArgs ==
    [to : {List(<<Recipient>>)}, template_id : {42},
     params : {Dict({<<"firstName", "D">>})},
     sender : {None, Dict(SenderDict)}, reply_to : {None}, cc : {None}, bcc : {None}]

InitResponse == InitWith(ResponseSettings)

NextResponse ==
    \/ BrevoClient_init({None})
    \/ send_email(PlainEmailArgs)
    \/ send_template_email(PlainTemplateArgs)
    \/ httpx_post
    \/ Receive(Responses)
    \/ TransportFailure
    \/ Return

SpecResponse == InitResponse /\ [][NextResponse]_vars

(***************************************************************************)
(* SpecCapture: the settings provider changes while the client is in use   *)
(***************************************************************************)
CaptureSettings ==
    [API_KEY : {Str("cfg-key")},
     API_BASE_URL : {DefaultUrl, "https://staging.example/v3"},
     TIMEOUT : {10, 30},
     SANDBOX : BOOLEAN,
     DEFAULT_FROM_EMAIL : {Str("d@b.com")}]

ConfigResponses ==
    {[status_code |-> 200, text |-> OkBody],
     [status_code |-> 401, text |-> MsgBody]}

InitCapture == InitWith(CaptureSettings)

NextCapture ==
    \/ BrevoClient_init({None})
    \/ ChangeSetting(CaptureSettings)
    \/ send_email(PlainEmailArgs)
    \/ send_template_email(PlainTemplateArgs)
    \/ httpx_post
    \/ Receive(ConfigResponses)
    \/ TransportFailure
    \/ Return

SpecCapture == InitCapture /\ [][NextCapture]_vars

(***************************************************************************)
(* SpecHistory: as SpecCapture, and an earlier call of the client is       *)
(* remembered for comparison with a later one                              *)
(***************************************************************************)
HistorySettings ==
    [API_KEY : {None, Str("cfg-key")},
     API_BASE_URL : {DefaultUrl, "https://staging.example/v3"},
     TIMEOUT : {10},
     SANDBOX : BOOLEAN,
     DEFAULT_FROM_EMAIL : {None, Str("d@b.com"), Str("e@b.com")}]

HistoryTemplateArgs == {a \in PlainTemplateArgs : a.sender = None}

InitHistory == InitWith(HistorySettings)

NextHistory ==
    \/ BrevoClient_init({None})
    \/ ChangeSetting(HistorySettings)
    \/ send_email(PlainEmailArgs)
    \/ send_template_email(HistoryTemplateArgs)
    \/ httpx_post
    \/ Receive(ConfigResponses)
    \/ TransportFailure
    \/ Return
    \/ ReturnRemember

SpecHistory == InitHistory /\ [][NextHistory]_vars

(***************************************************************************)
(* Properties                                                              *)
(***************************************************************************)
TypedErrors == {"BrevoAuthError", "BrevoRateLimitError", "BrevoAPIError"}

Answered == pc = "done" /\ response # None

Posted == request # None

\* C1: every response ends the call in the outcome its status code selects:
\* 2xx returns the parsed body ({} when the body is not JSON), 401 raises
\* BrevoAuthError(401), 429 raises BrevoRateLimitError(429), any other status
\* raises BrevoAPIError with that status; no other exception kind occurs.
C1_StatusAloneDecidesOutcome ==
    Answered =>
        LET j == ResponseJson(response.text)
            sc == response.status_code
        IN  IF 200 <= sc /\ sc <= 299
            THEN /\ outcome.kind = "return"
                 /\ outcome.value = IF j.ok THEN j.v ELSE Dict({})
            ELSE /\ outcome.kind =
                        IF sc = 401 THEN "BrevoAuthError"
                        ELSE IF sc = 429 THEN "BrevoRateLimitError"
                        ELSE "BrevoAPIError"
                 /\ outcome.status_code = sc

\* C2: the payload of every request has the key `headers` exactly when the
\* client's sandbox flag is set, and then its value is {"X-Sib-Sandbox": "drop"}.
C2_HeadersIffSandbox ==
    Posted =>
        /\ ("headers" \in DOMAIN request.json) <=> self.sandbox
        /\ self.sandbox =>
               request.json["headers"] = Dict({<<"X-Sib-Sandbox", "drop">>})

C2_Witness ==
    /\ Posted
    /\ op = "send_template_email"
    /\ self.sandbox
    /\ "headers" \in DOMAIN request.json

\* C3: BrevoClient(api_key) with neither the argument nor the configured
\* API_KEY non-empty raises BrevoConfigError, yields no client and issues no
\* request; with a non-empty argument it succeeds with api_key = the argument.
C3_ApiKeyResolution ==
    client # "none" =>
        /\ (~Truthy(ctor_arg) /\ ~Truthy(ctor_settings.API_KEY)) =>
               /\ client = "BrevoConfigError"
               /\ self = NoSelf
               /\ pc = "idle" /\ posts = 0 /\ request = None
        /\ Truthy(ctor_arg) =>
               /\ client = "ok"
               /\ self.api_key = ctor_arg

C3_Witness ==
    /\ client = "BrevoConfigError"
    /\ ctor_arg = Str("")
    /\ ctor_settings.API_KEY = None

\* C4: send_email without a sender uses {"email": DEFAULT_FROM_EMAIL} when a
\* default is configured and otherwise raises BrevoConfigError without any
\* request; a supplied sender is the payload's sender.
C4_SenderResolution ==
    (op = "send_email" /\ pc # "idle") =>
        IF args.sender = None
        THEN IF Truthy(settings.DEFAULT_FROM_EMAIL)
             THEN /\ outcome.kind # "BrevoConfigError"
                  /\ payload["sender"] =
                         Dict({<<"email", settings.DEFAULT_FROM_EMAIL.s>>})
                  /\ Posted => request.json["sender"] = payload["sender"]
             ELSE /\ pc = "done"
                  /\ outcome.kind = "BrevoConfigError"
                  /\ posts = 0 /\ request = None
        ELSE /\ outcome.kind # "BrevoConfigError"
             /\ payload["sender"] = args.sender
             /\ Posted => request.json["sender"] = args.sender

C4_Witness ==
    /\ op = "send_email"
    /\ args.sender = None
    /\ settings.DEFAULT_FROM_EMAIL = Str("")
    /\ outcome.kind = "BrevoConfigError"

EmailOptional ==
    {<<"textContent", "text_content">>, <<"replyTo", "reply_to">>,
     <<"cc", "cc">>, <<"bcc", "bcc">>}

\* C5: the payload of every send_email request has sender, to, subject and
\* htmlContent (the last three equal to the arguments), and has textContent,
\* replyTo, cc, bcc exactly when the argument is truthy, equal to the argument.
C5_EmailPayloadKeys ==
    (Posted /\ op = "send_email") =>
        /\ {"sender", "to", "subject", "htmlContent"} \subseteq DOMAIN request.json
        /\ request.json["to"] = args.to
        /\ request.json["subject"] = Str(args.subject)
        /\ request.json["htmlContent"] = Str(args.html_content)
        /\ \A ka \in EmailOptional :
               /\ (ka[1] \in DOMAIN request.json) <=> Truthy(args[ka[2]])
               /\ (ka[1] \in DOMAIN request.json) =>
                      request.json[ka[1]] = args[ka[2]]

C5_Witness ==
    /\ Posted /\ op = "send_email"
    /\ args.text_content = Str("") /\ args.cc = List(<<>>)
    /\ args.reply_to = Dict({}) /\ Truthy(args.bcc)
    /\ DOMAIN request.json \ {"headers"} =
           {"sender", "to", "subject", "htmlContent", "bcc"}

TemplateOptional ==
    {<<"params", "params">>, <<"sender", "sender">>, <<"replyTo", "reply_to">>,
     <<"cc", "cc">>, <<"bcc", "bcc">>}

\* C6: send_template_email never raises BrevoConfigError and always reaches the
\* POST; its payload has to and templateId equal to the arguments, has params,
\* sender, replyTo, cc, bcc only when the argument is supplied and non-empty,
\* and never takes sender from DEFAULT_FROM_EMAIL.
C6_TemplatePayload ==
    (op = "send_template_email" /\ pc # "idle") =>
        /\ outcome.kind # "BrevoConfigError"
        /\ pc = "done" => posts = 1
        /\ payload["to"] = args.to
        /\ payload["templateId"] = IntV(args.template_id)
        /\ \A ka \in TemplateOptional :
               (ka[1] \in DOMAIN payload) =>
                   /\ Truthy(args[ka[2]])
                   /\ payload[ka[1]] = args[ka[2]]
        /\ Posted => request.json = payload

C6_Witness ==
    /\ Posted /\ op = "send_template_email"
    /\ args.sender = None
    /\ Truthy(settings.DEFAULT_FROM_EMAIL)
    /\ "sender" \notin DOMAIN request.json
    /\ "params" \in DOMAIN request.json

C8_AtMostOnePost ==
    /\ posts <= 1
    /\ pc \in {"idle", "post"} => posts = 0
    /\ pc = "wait" => posts = 1
    /\ pc = "done" =>
           /\ outcome.kind # "none"
           /\ posts = IF outcome.kind = "BrevoConfigError" THEN 0 ELSE 1
           /\ response = None =>
                  outcome.kind \in {"BrevoConfigError", "TransportError"}
           /\ (response # None /\ response.status_code \in {429, 500}) =>
                  outcome.kind \in TypedErrors

C8_Witness ==
    /\ pc = "done"
    /\ posts = 1
    /\ outcome.kind = "BrevoRateLimitError"

\* C9: every request of a client uses the base URL and timeout, and has the
\* sandbox `headers` field or not, as the settings provider was when the client
\* was constructed, whatever the settings provider holds now.
C9_ConfigCapturedAtConstruction ==
    Posted =>
        /\ request.url = ctor_settings.API_BASE_URL \o "/smtp/email"
        /\ request.timeout = ctor_settings.TIMEOUT
        /\ ("headers" \in DOMAIN request.json) <=> ctor_settings.SANDBOX

C9_Witness ==
    /\ Posted
    /\ settings.API_BASE_URL # ctor_settings.API_BASE_URL
    /\ settings.TIMEOUT # ctor_settings.TIMEOUT
    /\ settings.SANDBOX # ctor_settings.SANDBOX
    /\ request.timeout = ctor_settings.TIMEOUT

SameCallSameAnswer ==
    /\ prev # None
    /\ pc = "done"
    /\ prev.op = op
    /\ prev.args = args
    /\ response # None
    /\ prev.response = response

====
